---- MODULE Spec2Model ----
(***************************************************************************)
(* State-machine model of trackpad-rs (src/src/lib.rs): the MTDevice       *)
(* handle (devices, default, listen, stop, stop_and_drop, Drop) and the    *)
(* extern "C" callback bridge the MultitouchSupport framework invokes.     *)
(*                                                                         *)
(* The framework itself is an external collaborator.  Its side of every    *)
(* extern call is modelled as the library relies on it: a device holds one *)
(* contact-frame callback slot with its refcon, MTDeviceStart may or may   *)
(* not bring the device up, MTDeviceStop brings it down, frames are only   *)
(* emitted by a device that is up, one frame at a time per device and      *)
(* concurrently across devices.  Timestamp and frame number are passed     *)
(* through the bridge untouched and are left out of the state.             *)
(***************************************************************************)
EXTENDS Integers, Sequences, FiniteSets, TLC

\* ---------------------------------------------------------------- bounds
NDev == 2           \* native devices present
MaxHandles == 2     \* MTDevice values ever constructed
MaxAlloc == 2       \* boxed handlers ever allocated by listen
MaxFingers == 2     \* records in one contact frame
MinFamily == 105    \* family ids the classifier is tried on: MinFamily..MaxFamily
MaxFamily == 135

Devices == 1..NDev
Handles == 1..MaxHandles
NoDevice == 0                     \* inner of a handle slot not constructed yet
NullCtx == 0                      \* no refcon registered
NoClosure == 0                    \* no closure
None == [none |-> TRUE]           \* no invocation / no result

\* The device MTDeviceCreateDefault returns.
DefaultDevice == 1

\* Native attributes of the devices present (MTDeviceIsBuiltIn, MTDeviceGetFamilyID).
IsBuiltIn(d) == d = 1
FamilyID(d) == IF d = 1 THEN 108 ELSE 126 + d

\* Contact frames the framework can emit, records named by their finger id:
\* the empty frame, a frame of one record, and a full frame of MaxFingers
\* records in descending finger order.
Ascending(n) == [i \in 1..n |-> i - 1]
Descending(n) == [i \in 1..n |-> n - i]
NativeArrays == {Ascending(0), Ascending(1), Descending(MaxFingers)}

VARIABLES
    hstate,         \* handle slot: "none" (not constructed), "live", "dropped"
    inner,          \* MTDevice.inner: the native device of the handle
    device_type,    \* MTDevice.device_type
    is_running,     \* MTDevice.is_running
    releases,       \* MTDeviceRelease calls made for the handle's inner
    nativeRunning,  \* what MTDeviceIsRunning answers for the device
    last_query,     \* what MTDeviceIsRunning answered in the most recent start
    refcon,         \* the refcon in the device's callback slot (address, 0 = none)
    heap,           \* boxes leaked by Box::into_raw: address -> [f, dev]
    inflight,       \* per device: the bridge invocation in progress
    lastRet,        \* the most recent return of the bridge to the framework
    listen_result,  \* the Result the most recent listen returned
    latest,         \* the closure of the last listen that registered on the device
    classified      \* a call of the classifier on its own: inputs and DeviceType

vars == <<hstate, inner, device_type, is_running, releases, nativeRunning, last_query, refcon,
          heap, inflight, lastRet, listen_result, latest, classified>>

handleVars == <<hstate, inner, device_type, is_running, releases>>
nativeVars == <<nativeRunning, last_query, refcon, heap, latest>>
bridgeVars == <<inflight, lastRet>>

\* ------------------------------------------------------------ classifier
\* The if-chain of inner_device_type on the two attributes it reads.
classify_family_first(builtin, family_id) ==
    IF family_id \in {112, 113} THEN <<"MagicMouse">>
    ELSE IF family_id \in 128..130 THEN <<"ExternalTrackpad">>
    ELSE IF builtin THEN <<"InternalTrackpad">>
    ELSE <<"Unknown", family_id>>

classify(builtin, family_id) ==
    IF builtin THEN <<"InternalTrackpad">>
    ELSE IF family_id \in {112, 113} THEN <<"MagicMouse">>
    ELSE IF family_id \in 128..130 THEN <<"ExternalTrackpad">>
    ELSE <<"Unknown", family_id>>

\* MTDeviceGetFamilyID and MTDeviceIsBuiltIn on dev, then the if-chain.
inner_device_type(dev) == classify(IsBuiltIn(dev), FamilyID(dev))

\* ------------------------------------------------------------------ Init
NoHandles ==
    /\ hstate = [h \in Handles |-> "none"]
    /\ inner = [h \in Handles |-> NoDevice]
    /\ device_type = [h \in Handles |-> <<>>]
    /\ is_running = [h \in Handles |-> FALSE]
    /\ releases = [h \in Handles |-> 0]
    /\ nativeRunning = [d \in Devices |-> FALSE]
    /\ last_query = "none"
    /\ refcon = [d \in Devices |-> NullCtx]
    /\ heap = <<>>
    /\ inflight = [d \in Devices |-> None]
    /\ lastRet = None
    /\ listen_result = "none"
    /\ latest = [d \in Devices |-> NoClosure]

Init ==
    /\ NoHandles
    /\ classified = None

\* ---------------------------------------------------------- construction
Unused == {h \in Handles : hstate[h] = "none"}
NextSlot == Cardinality(Handles \ Unused) + 1

\* MTDevice::new / Default::default: the fields of a fresh handle on dev.
new(h, dev) ==
    /\ hstate' = [hstate EXCEPT ![h] = "live"]
    /\ inner' = [inner EXCEPT ![h] = dev]
    /\ device_type' = [device_type EXCEPT ![h] = inner_device_type(dev)]
    /\ is_running' = [is_running EXCEPT ![h] = FALSE]

Default ==
    /\ NextSlot <= MaxHandles
    /\ new(NextSlot, DefaultDevice)
    /\ UNCHANGED <<releases, nativeVars, bridgeVars, listen_result, classified>>

\* MTDevice::devices: one handle per entry of MTDeviceCreateList, in list order.
devices ==
    /\ NextSlot + NDev - 1 <= MaxHandles
    /\ LET base == NextSlot - 1
           made == (base + 1)..(base + NDev)
       IN /\ hstate' = [h \in Handles |-> IF h \in made THEN "live" ELSE hstate[h]]
          /\ inner' = [h \in Handles |-> IF h \in made THEN h - base ELSE inner[h]]
          /\ device_type' = [h \in Handles |->
                IF h \in made THEN inner_device_type(h - base) ELSE device_type[h]]
          /\ is_running' = [h \in Handles |-> IF h \in made THEN FALSE ELSE is_running[h]]
    /\ UNCHANGED <<releases, nativeVars, bridgeVars, listen_result, classified>>

\* ------------------------------------------------------------- lifecycle
\* MTDevice::start: MTDeviceStart, then is_running := MTDeviceIsRunning.
\* `up` is whether the framework brings a device that is down up.
start_assume_running(h, up) ==
    LET d == inner[h]
        now == nativeRunning[d] \/ up
    IN /\ nativeRunning' = [nativeRunning EXCEPT ![d] = now]
       /\ last_query' = (IF now THEN "running" ELSE "not running")
       /\ is_running' = [is_running EXCEPT ![h] = TRUE]

start_without_flag(h, up) ==
    LET d == inner[h]
        now == nativeRunning[d] \/ up
    IN /\ nativeRunning' = [nativeRunning EXCEPT ![d] = now]
       /\ last_query' = (IF now THEN "running" ELSE "not running")
       /\ UNCHANGED is_running

start(h, up) ==
    LET d == inner[h]
        now == nativeRunning[d] \/ up
    IN /\ nativeRunning' = [nativeRunning EXCEPT ![d] = now]
       /\ last_query' = (IF now THEN "running" ELSE "not running")
       /\ is_running' = [is_running EXCEPT ![h] = now]

\* The closure a call of listen is given.  Every call moves a closure of its
\* own into listen; the model names it after the box it would be put in.
\* A box is tagged with the device it is registered on and the handle whose
\* listen allocated it; Box::into_raw takes it out of Rust's ownership, and
\* nothing in the source turns a raw box back into an owned one.
NewClosure == Len(heap) + 1

\* The !is_running branch of listen: box the closure, hand the raw box to
\* MTRegisterContactFrameCallbackWithRefcon, start the device, return Ok.
listen_register(h) ==
    LET d == inner[h]
        box == Len(heap) + 1
        f == NewClosure
    IN /\ box <= MaxAlloc
       /\ heap' = Append(heap, [f |-> f, dev |-> d, owner |-> h])
       /\ refcon' = [refcon EXCEPT ![d] = box]
       /\ \E up \in BOOLEAN : start(h, up)
       /\ latest' = [latest EXCEPT ![d] = f]
       /\ listen_result' = "Ok"
       /\ UNCHANGED <<hstate, inner, device_type, releases, bridgeVars, classified>>

\* The else branch of listen: bail!("already listening"); the closure is dropped.
listen_bail(h) ==
    /\ listen_result' = "already listening"
    /\ UNCHANGED <<handleVars, nativeVars, bridgeVars, classified>>

listen_unguarded(h) ==
    /\ hstate[h] = "live"
    /\ listen_register(h)

listen_register_once(h) ==
    /\ hstate[h] = "live"
    /\ IF is_running[h] THEN listen_bail(h)
       ELSE IF refcon[inner[h]] = NullCtx THEN listen_register(h)
       ELSE /\ \E up \in BOOLEAN : start(h, up)
            /\ latest' = [latest EXCEPT ![inner[h]] = NewClosure]
            /\ listen_result' = "Ok"
            /\ UNCHANGED <<hstate, inner, device_type, releases, refcon, heap, bridgeVars, classified>>

listen_start_only(h) ==
    /\ hstate[h] = "live"
    /\ IF is_running[h] THEN listen_bail(h)
       ELSE /\ \E up \in BOOLEAN : start(h, up)
            /\ listen_result' = "Ok"
            /\ UNCHANGED <<hstate, inner, device_type, releases, refcon, heap, latest, bridgeVars, classified>>

listen_checks_start(h) ==
    /\ hstate[h] = "live"
    /\ IF is_running[h] THEN listen_bail(h)
       ELSE /\ Len(heap) + 1 <= MaxAlloc
            /\ heap' = Append(heap, [f |-> NewClosure, dev |-> inner[h], owner |-> h])
            /\ refcon' = [refcon EXCEPT ![inner[h]] = Len(heap) + 1]
            /\ \E up \in BOOLEAN : start(h, up)
            /\ latest' = [latest EXCEPT ![inner[h]] = NewClosure]
            /\ listen_result' = (IF is_running'[h] THEN "Ok" ELSE "not running")
            /\ UNCHANGED <<hstate, inner, device_type, releases, bridgeVars, classified>>

listen(h) ==
    /\ hstate[h] = "live"
    /\ IF ~is_running[h] THEN listen_register(h) ELSE listen_bail(h)

\* The body of stop: MTDeviceStop, then is_running := false.
stop_body(h) ==
    LET d == inner[h]
    IN /\ nativeRunning' = [nativeRunning EXCEPT ![d] = FALSE]
       /\ is_running' = [is_running EXCEPT ![h] = FALSE]

\* Drop::drop: MTDeviceRelease(self.inner); the value is gone afterwards.
drop_body(h) ==
    /\ hstate' = [hstate EXCEPT ![h] = "dropped"]
    /\ releases' = [releases EXCEPT ![h] = @ + 1]

\* The fields of a dropped value no longer exist: its flag reads as false.
forget(h) == is_running' = [is_running EXCEPT ![h] = FALSE]

stop_flag_only(h) ==
    /\ hstate[h] = "live"
    /\ is_running' = [is_running EXCEPT ![h] = FALSE]
    /\ UNCHANGED <<hstate, inner, device_type, releases, nativeRunning,
                   refcon, heap, latest, last_query, bridgeVars, listen_result, classified>>

stop_releasing(h) ==
    /\ hstate[h] = "live"
    /\ stop_body(h)
    /\ releases' = [releases EXCEPT ![h] = @ + 1]
    /\ UNCHANGED <<hstate, inner, device_type, refcon, heap, latest, last_query, bridgeVars, listen_result, classified>>

stop(h) ==
    /\ hstate[h] = "live"
    /\ stop_body(h)
    /\ UNCHANGED <<hstate, inner, device_type, releases, refcon, heap, latest, last_query, bridgeVars, listen_result, classified>>

stop_and_release_twice(h) ==
    /\ hstate[h] = "live"
    /\ stop_body(h)
    /\ hstate' = [hstate EXCEPT ![h] = "dropped"]
    /\ releases' = [releases EXCEPT ![h] = @ + 2]
    /\ UNCHANGED <<inner, device_type, refcon, heap, latest, last_query, bridgeVars, listen_result, classified>>

\* stop_and_drop: self.stop(); drop(self).
stop_and_drop(h) ==
    /\ hstate[h] = "live"
    /\ stop_body(h)
    /\ drop_body(h)
    /\ UNCHANGED <<inner, device_type, refcon, heap, latest, last_query, bridgeVars, listen_result, classified>>

\* The handle reaches the end of its scope: Drop::drop runs, and nothing else.
Drop(h) ==
    /\ hstate[h] = "live"
    /\ drop_body(h)
    /\ forget(h)
    /\ UNCHANGED <<inner, device_type, nativeVars, bridgeVars, listen_result, classified>>

\* ------------------------------------------------------ callback bridge
\* std::slice::from_raw_parts(data, fingers as usize): a view of the first
\* len records behind the pointer, in place.
from_raw_parts_short(data, len) == SubSeq(data, 1, len - 1)

from_raw_parts(data, len) == SubSeq(data, 1, len)

\* data.is_empty()
is_empty_never(slice) == FALSE

is_empty(slice) == Len(slice) = 0

\* &*(extra as *const Box<dyn Fn(..)>): the closure borrowed through the refcon.
recipient_global(extra) == heap[Len(heap)].f

recipient(extra) == heap[extra].f

\* catch_unwind around the closure: a panic of the handler becomes Err.
no_catch(outcome) == IF outcome = "panic" THEN "Unwind" ELSE "Ok"

catch_unwind(outcome) == IF outcome = "panic" THEN "Err" ELSE "Ok"

\* match .. { Ok(_) => 0, Err(_) => -1 }; an unwind that was not caught
\* leaves the bridge without a return value.
bridge_result(caught) ==
    [unwound |-> caught = "Unwind", ret |-> IF caught = "Err" THEN -1 ELSE 0]

\* What the closure can do with a call: return or panic.
Outcomes(calls) == IF calls = <<>> THEN {"normal"} ELSE {"normal", "panic"}

\* The return of the bridge to the framework, as the framework sees it.
returned(d, extra, fingers, calls, outcome) ==
    [dev |-> d, extra |-> extra, empty |-> fingers = 0, ncalls |-> Len(calls),
     outcome |-> outcome, result |-> bridge_result(catch_unwind(outcome))]

\* The framework calls the bridge for a frame of device d with the refcon of
\* d's callback slot; the bridge builds the slice and, unless it is empty,
\* calls the closure with it: the closure is now running.  With an empty
\* slice no user code runs and the bridge returns at once.
callback(d) ==
    /\ nativeRunning[d]
    /\ refcon[d] # NullCtx
    /\ inflight[d] = None
    /\ \E data \in NativeArrays :
         LET fingers == Len(data)
             extra == refcon[d]
             slice == from_raw_parts(data, fingers)
             calls == IF ~is_empty(slice)
                      THEN <<[handler |-> recipient(extra), device |-> d, data |-> slice]>>
                      ELSE <<>>
         IN IF calls = <<>>
            THEN /\ lastRet' = returned(d, extra, fingers, calls, "normal")
                 /\ UNCHANGED inflight
            ELSE /\ inflight' = [inflight EXCEPT ![d] =
                        [extra |-> extra, data |-> data, fingers |-> fingers, calls |-> calls]]
                 /\ UNCHANGED lastRet
    /\ UNCHANGED <<handleVars, nativeVars, listen_result, classified>>

callback_return_owning(d) ==
    /\ inflight[d] # None
    /\ \E outcome \in Outcomes(inflight[d].calls) :
         lastRet' = returned(d, inflight[d].extra, inflight[d].fingers, inflight[d].calls, outcome)
    /\ inflight' = [inflight EXCEPT ![d] = None]
    /\ heap' = [heap EXCEPT ![inflight[d].extra].f = NoClosure]
    /\ UNCHANGED <<handleVars, nativeRunning, last_query, refcon, latest, listen_result, classified>>

\* The closure returns or panics, and the bridge returns to the framework.
callback_return(d) ==
    /\ inflight[d] # None
    /\ \E outcome \in Outcomes(inflight[d].calls) :
         lastRet' = returned(d, inflight[d].extra, inflight[d].fingers, inflight[d].calls, outcome)
    /\ inflight' = [inflight EXCEPT ![d] = None]
    /\ UNCHANGED <<handleVars, nativeVars, listen_result, classified>>

\* ------------------------------------------------------------------ Next
Next ==
    \/ Default
    \/ devices
    \/ \E h \in Handles : listen(h)
    \/ \E h \in Handles : stop(h)
    \/ \E h \in Handles : stop_and_drop(h)
    \/ \E h \in Handles : Drop(h)
    \/ \E d \in Devices : callback(d)
    \/ \E d \in Devices : callback_return(d)

Spec == Init /\ [][Next]_vars

\* ------------------------------------------------- the classifier alone
\* inner_device_type is a pure function of the two attributes it reads from
\* the framework: every pair of a builtin flag and a family id is an input.
FamilyIds == MinFamily..MaxFamily

InitClassify ==
    /\ NoHandles
    /\ classified \in [builtin : BOOLEAN, family : FamilyIds, type : {<<>>}]

Classify ==
    /\ classified.type = <<>>
    /\ classified' = [classified EXCEPT !.type = classify(classified.builtin, classified.family)]
    /\ UNCHANGED <<handleVars, nativeVars, bridgeVars, listen_result>>

NextClassify == Classify

SpecClassify == InitClassify /\ [][NextClassify]_vars

\* ---------------------------------------------------------------- claims
Live(h) == hstate[h] = "live"
Constructed == {h \in Handles : hstate[h] # "none"}
Invoked(d) == inflight[d] # None /\ inflight[d].calls # <<>>

\* C1: listen on a handle whose running flag is true returns the "already
\* listening" error and changes nothing: no registration, no start, the flag
\* and every other field as before, and the closure registered on the device
\* is still the one of the last listen that succeeded on it.
C1_RejectedListenNoEffect ==
    [][\A h \in Handles :
        (Live(h) /\ is_running[h] /\ listen(h)) =>
            /\ listen_result' = "already listening"
            /\ UNCHANGED <<handleVars, nativeVars, bridgeVars, classified>>
            /\ refcon'[inner[h]] # NullCtx
            /\ heap'[refcon'[inner[h]]].f = latest'[inner[h]]]_vars

\* A single handle was constructed, its listen was rejected, and a later
\* frame of its device is being handled by the closure registered first.
C1_Witness ==
    \E h \in Handles :
        /\ Constructed = {h}
        /\ Live(h) /\ is_running[h]
        /\ listen_result = "already listening"
        /\ Invoked(inner[h])
        /\ inflight[inner[h]].calls[1].handler = 1

\* C2: every return of the bridge gives 0 when the closure returned or was
\* not called and -1 when the closure panicked, and no panic leaves the bridge.
C2_BridgeReturnCode ==
    lastRet # None =>
        /\ ~lastRet.result.unwound
        /\ (lastRet.outcome = "normal" \/ lastRet.ncalls = 0) => lastRet.result.ret = 0
        /\ lastRet.ncalls = 0 => lastRet.outcome = "normal"
        /\ lastRet.outcome = "panic" => lastRet.result.ret = -1

C2_Witness ==
    /\ lastRet # None
    /\ lastRet.outcome = "panic"
    /\ lastRet.result = [unwound |-> FALSE, ret |-> -1]

\* C3: a return of the bridge after a panic of the closure leaves the
\* registration, the boxed closures, the device's running state, every
\* handle's flag and every other device's invocation as they were, so the
\* next frame of the device goes through the same refcon to the same closure.
C3_PanicLeavesDelivery ==
    [][\A d \in Devices :
        (inflight[d] # None /\ inflight'[d] = None /\ callback_return(d)
            /\ lastRet'.outcome = "panic") =>
            /\ UNCHANGED <<refcon, heap, nativeRunning, is_running, hstate, latest>>
            /\ \A e \in Devices \ {d} : inflight'[e] = inflight[e]
            /\ inflight'[d] = None
            /\ refcon'[d] = inflight[d].extra =>
                  heap'[refcon'[d]].f = inflight[d].calls[1].handler]_vars

\* The closure of d panicked on a frame, the next frame of d is being handled
\* by the same closure, and another device's closure is handling a frame too.
C3_Witness ==
    /\ lastRet # None
    /\ lastRet.outcome = "panic"
    /\ Invoked(lastRet.dev)
    /\ inflight[lastRet.dev].extra = lastRet.extra
    /\ inflight[lastRet.dev].calls[1].handler = heap[lastRet.extra].f
    /\ \E e \in Devices \ {lastRet.dev} :
          /\ Invoked(e)
          /\ nativeRunning[e]
          /\ inflight[e].calls[1].handler # inflight[lastRet.dev].calls[1].handler

\* C4: with any interleaving of the devices' invocations, the closure called
\* for a frame of device d is the one whose box is the refcon of that
\* invocation, and that box was registered by a listen on d: no closure
\* registered for another device is called, whichever registered last.
C4_RoutedByContext ==
    \A d \in Devices :
        Invoked(d) =>
            \A i \in DOMAIN inflight[d].calls :
                LET call == inflight[d].calls[i]
                    boxes == {a \in DOMAIN heap : heap[a].f = call.handler}
                IN /\ boxes = {inflight[d].extra}
                   /\ heap[inflight[d].extra].dev = d
                   /\ call.device = d

\* Two devices are running with distinct closures; both closures are handling
\* a frame at once, and the device whose closure was registered first is one.
C4_Witness ==
    \E d, e \in Devices :
        /\ d # e
        /\ Invoked(d) /\ Invoked(e)
        /\ inflight[d].extra = 1 /\ inflight[e].extra = Len(heap)
        /\ inflight[d].calls[1].handler # inflight[e].calls[1].handler

\* C5: a frame with n > 0 records makes exactly one call of the closure, with
\* the n records of the native array in the array's order.
C5_WholeFrameInOrder ==
    \A d \in Devices :
        (inflight[d] # None /\ inflight[d].fingers > 0) =>
            /\ Len(inflight[d].calls) = 1
            /\ inflight[d].calls[1].data = inflight[d].data
            /\ Len(inflight[d].calls[1].data) = inflight[d].fingers

\* A full frame in descending finger order is being handled as it came.
C5_Witness ==
    \E d \in Devices :
        /\ Invoked(d)
        /\ inflight[d].fingers = MaxFingers
        /\ inflight[d].data = Descending(MaxFingers)
        /\ inflight[d].calls[1].data = Descending(MaxFingers)

\* C6: a frame with a record count of zero calls the closure zero times, hands
\* no record to anyone and returns 0; an invocation with a call in it never
\* comes from a count of zero.
C6_EmptyFrameNoCall ==
    /\ \A d \in Devices : Invoked(d) => inflight[d].fingers > 0
    /\ (lastRet # None /\ lastRet.empty) =>
            /\ lastRet.ncalls = 0
            /\ lastRet.result = [unwound |-> FALSE, ret |-> 0]

C6_Witness ==
    /\ lastRet # None
    /\ lastRet.empty
    /\ lastRet.ncalls = 0
    /\ lastRet.result.ret = 0

\* C7: a listen on a handle that is not running (after stop in particular)
\* returns Ok and registers the new closure, and every invocation that begins
\* calls the closure of the last listen that registered on the device, never
\* an earlier one.
C7_RestartDeliversToNew ==
    [][/\ \A h \in Handles :
            (Live(h) /\ ~is_running[h] /\ listen(h)) =>
                /\ listen_result' = "Ok"
                /\ latest'[inner[h]] = NewClosure
                /\ heap'[refcon'[inner[h]]].f = NewClosure
       /\ \A d \in Devices :
            (inflight[d] = None /\ inflight'[d] # None /\ callback(d)) =>
                /\ inflight'[d].calls[1].handler = latest[d]
                /\ \A a \in 1..(refcon[d] - 1) : inflight'[d].calls[1].handler # heap[a].f]_vars

\* The only handle of a device listened, its closure handled a frame, it was
\* stopped and listened again, and the new closure is handling a frame.
C7_Witness ==
    \E d \in Devices :
        /\ Cardinality({h \in Handles : inner[h] = d}) = 1
        /\ lastRet # None /\ lastRet.dev = d /\ lastRet.ncalls = 1
        /\ Invoked(d)
        /\ lastRet.extra < inflight[d].extra
        /\ heap[lastRet.extra].dev = d
        /\ inflight[d].calls[1].handler = heap[inflight[d].extra].f
        /\ inflight[d].calls[1].handler # heap[lastRet.extra].f

\* C8: stop leaves the device down; a device that is down comes up only in a
\* listen that returns Ok; an invocation begins only on a device that is up.
\* So none begins between the return of stop and a later successful listen.
\* An invocation in flight is not touched by stop and can always return.
C8_NoInvocationAfterStop ==
    /\ [][/\ \A h \in Handles : stop(h) =>
                /\ ~nativeRunning'[inner[h]]
                /\ inflight' = inflight
          /\ \A d \in Devices :
                (~nativeRunning[d] /\ nativeRunning'[d]) =>
                    \E h \in Handles : inner[h] = d /\ listen(h) /\ listen_result' = "Ok"
          /\ \A d \in Devices :
                (<<inflight, lastRet>>' # <<inflight, lastRet>> /\ callback(d)) => nativeRunning[d]]_vars
    /\ [](\A d \in Devices : inflight[d] # None => ENABLED callback_return(d))

\* The device was stopped while its closure was handling a frame.
C8_Witness ==
    \E h \in Handles :
        /\ Live(h) /\ ~is_running[h]
        /\ ~nativeRunning[inner[h]]
        /\ Invoked(inner[h])
        /\ Cardinality({g \in Handles : inner[g] = inner[h]}) = 1

\* C9: MTDeviceRelease is called once for every handle whose lifetime has
\* ended, and not at all for a handle that is still alive or not yet made.
C9_ReleasedExactlyOnce ==
    \A h \in Handles :
        /\ hstate[h] = "dropped" => releases[h] = 1
        /\ hstate[h] # "dropped" => releases[h] = 0

\* Two handles ended, one through stop_and_drop after a rejected listen, and
\* each was released once.
C9_Witness ==
    /\ listen_result = "already listening"
    /\ \A h \in Handles : hstate[h] = "dropped" /\ releases[h] = 1
    /\ \E d \in Devices : refcon[d] # NullCtx /\ ~nativeRunning[d]

\* C10: whenever a handle's native resource is released, through
\* stop_and_drop or at the end of its scope, the device is not running.
C10_StoppedBeforeRelease ==
    [][\A h \in Handles :
        (Drop(h) \/ stop_and_drop(h)) => ~nativeRunning'[inner[h]]]_vars

\* C11: at every point, no two live handles hold the same native device.
C11_OneHandlePerDevice ==
    \A h \in Handles : \A g \in Handles \ {h} :
        (Live(h) /\ Live(g)) => inner[h] # inner[g]

\* C12: stop leaves the handle alive and unreleased with its flag false and
\* its device down, and a stop on a handle in that state changes nothing at
\* all: a second stop cannot be told from the first.
C12_StopIdempotent ==
    [][\A h \in Handles :
        stop(h) =>
            /\ ~is_running'[h]
            /\ ~nativeRunning'[inner[h]]
            /\ hstate'[h] = "live"
            /\ releases'[h] = 0
            /\ (~is_running[h] /\ ~nativeRunning[inner[h]]) => UNCHANGED vars]_vars

\* A handle that listened and delivered a frame has been stopped: its flag is
\* false, its device is down, it is not released, and stop is enabled again.
C12_Witness ==
    \E h \in Handles :
        /\ Live(h) /\ ~is_running[h]
        /\ ~nativeRunning[inner[h]]
        /\ releases[h] = 0
        /\ lastRet # None /\ lastRet.dev = inner[h]
        /\ ENABLED stop(h)

\* C13: a listen (accepted or rejected), stop, release or handler panic of
\* one handle leaves every other handle's flag, its device's registered
\* closure and running state, and its release count as they were.
C13_OtherHandlesUntouched ==
    [][\A h \in Handles : \A g \in Handles \ {h} :
        (/\ Live(h) /\ Live(g)
         /\ \/ listen(h)
            \/ stop(h)
            \/ Drop(h)
            \/ stop_and_drop(h)
            \/ (callback_return(inner[h]) /\ lastRet'.outcome = "panic")) =>
            /\ is_running'[g] = is_running[g]
            /\ hstate'[g] = hstate[g]
            /\ releases'[g] = releases[g]
            /\ refcon'[inner[g]] = refcon[inner[g]]
            /\ nativeRunning'[inner[g]] = nativeRunning[inner[g]]]_vars

\* C14: the classifier gives InternalTrackpad whenever builtin is set,
\* whatever the family id; otherwise MagicMouse for 112 and 113; otherwise
\* ExternalTrackpad for 128 to 130; otherwise Unknown with the id unchanged.
C14_ClassifierTable ==
    classified.type # <<>> =>
        LET b == classified.builtin
            id == classified.family
            t == classified.type
        IN /\ b => t = <<"InternalTrackpad">>
           /\ (~b /\ id \in {112, 113}) => t = <<"MagicMouse">>
           /\ (~b /\ id >= 128 /\ id <= 130) => t = <<"ExternalTrackpad">>
           /\ (~b /\ id # 112 /\ id # 113 /\ (id < 128 \/ id > 130)) => t = <<"Unknown", id>>

\* A builtin device with a Magic Mouse family id is an InternalTrackpad.
C14_Witness ==
    /\ classified.builtin
    /\ classified.family = 112
    /\ classified.type = <<"InternalTrackpad">>

\* C15: a live handle whose flag is true has a closure registered on its
\* device and that closure's box is allocated; a device that is running has
\* a closure registered; and a bridge invocation in flight holds a context
\* that is an allocated box.
C15_RunningHasHandler ==
    /\ \A h \in Handles :
          (Live(h) /\ is_running[h]) =>
              /\ refcon[inner[h]] \in DOMAIN heap
              /\ heap[refcon[inner[h]]].f # NoClosure
    /\ \A d \in Devices :
          /\ nativeRunning[d] => refcon[d] \in DOMAIN heap
          /\ inflight[d] # None =>
                /\ inflight[d].extra \in DOMAIN heap
                /\ heap[inflight[d].extra].f # NoClosure

\* A handle is running after an accepted listen, and a frame is being
\* delivered to the closure that listen registered.
C15_Witness ==
    \E h \in Handles :
        /\ Live(h) /\ is_running[h]
        /\ nativeRunning[inner[h]]
        /\ Invoked(inner[h])
        /\ inflight[inner[h]].extra = refcon[inner[h]]
        /\ heap[refcon[inner[h]]].owner = h

\* C16: an accepted listen leaves the handle's flag equal to what the
\* device reports after the start call, which is the answer of the running
\* query that start made; a device that did not come up leaves it false.
C16_FlagIsPostStartQuery ==
    [][\A h \in Handles :
        (Live(h) /\ ~is_running[h] /\ listen(h)) =>
            /\ is_running'[h] = nativeRunning'[inner[h]]
            /\ is_running'[h] = (last_query' = "running")]_vars

\* The only handle listened once, the device did not come up, and the flag
\* is false although listen returned Ok.
C16_Witness ==
    \E h \in Handles :
        /\ Constructed = {h} /\ Live(h)
        /\ listen_result = "Ok"
        /\ last_query = "not running"
        /\ ~is_running[h] /\ ~nativeRunning[inner[h]]
        /\ Len(heap) = 1 /\ refcon[inner[h]] = 1

\* C17 as stated: a handle that listen accepted has its flag true until a
\* stop follows, so a false flag means no listen or a stop since.
C17_FalseMeansNeverOrStopped ==
    [][\A h \in Handles :
        (Live(h) /\ ~is_running[h] /\ listen(h)) => is_running'[h]]_vars

\* C17 amended: the flag of a live handle goes from true to false only by
\* its stop, and an accepted listen leaves it false exactly when the
\* post-start query answered not running; the closure that listen
\* registered is then registered although the flag is false.
C17_FalseMeansNeverStoppedOrNotUp ==
    [][\A h \in Handles :
        /\ (Live(h) /\ is_running[h] /\ hstate'[h] = "live" /\ ~is_running'[h]) => stop(h)
        /\ (Live(h) /\ ~is_running[h] /\ listen(h)) =>
              /\ ~is_running'[h] <=> last_query' = "not running"
              /\ refcon'[inner[h]] = Len(heap')
              /\ heap'[Len(heap')].owner = h]_vars

\* The only handle has listened twice; the device is down after the second
\* start, the flag is false, and the second closure is registered.
C17_Witness ==
    \E h \in Handles :
        /\ Constructed = {h} /\ Live(h)
        /\ ~is_running[h]
        /\ last_query = "not running"
        /\ Len(heap) = 2
        /\ heap[1].owner = h /\ heap[2].owner = h
        /\ refcon[inner[h]] = 2

\* C18: a handle has at most one allocated handler box at any time, and a
\* released handle has none.
C18_HandlerReclaimed ==
    \A h \in Handles :
        LET mine == {a \in DOMAIN heap : heap[a].owner = h}
        IN /\ Cardinality(mine) <= 1
           /\ hstate[h] = "dropped" => mine = {}

\* C19: listen returns the "already listening" error exactly when the flag
\* is true at the call; with the flag false it boxes the closure, registers
\* the box on the handle's device, starts the device and returns Ok, whether
\* or not the device reports running afterwards.
C19_ErrIffRunning ==
    [][\A h \in Handles :
        (Live(h) /\ listen(h)) =>
            /\ listen_result' # "Ok" <=> is_running[h]
            /\ is_running[h] => listen_result' = "already listening"
            /\ ~is_running[h] =>
                  /\ listen_result' = "Ok"
                  /\ Len(heap') = Len(heap) + 1
                  /\ refcon'[inner[h]] = Len(heap')
                  /\ last_query' \in {"running", "not running"}
                  /\ nativeRunning'[inner[h]] = (last_query' = "running")]_vars

\* Of two handles on two devices one is running; the other's listen
\* returned Ok although its device did not come up, and its closure is the
\* one registered last.
C19_Witness ==
    \E h \in Handles : \E g \in Handles \ {h} :
        /\ Live(h) /\ Live(g) /\ inner[h] # inner[g]
        /\ is_running[g] /\ ~is_running[h]
        /\ listen_result = "Ok"
        /\ last_query = "not running"
        /\ Len(heap) = 2 /\ refcon[inner[h]] = 2

====
